---- MODULE Spec2Model ----
(***************************************************************************)
(* State-machine model of the e-commerce backend (src/app/main.py,         *)
(* src/app/crud.py, src/app/models.py, src/app/schemas.py).                *)
(*                                                                         *)
(* The relational store is one function per table, from primary key to    *)
(* row.  Every request handler of main.py is an action; a handler that    *)
(* commits more than once (order placement, lazy cart creation) is split  *)
(* at its commits, because other requests can run between them.           *)
(* Primary keys come from per-table sequences and are never reused.       *)
(* The Float columns price and total_amount hold integers here.  The      *)
(* identity of the requester (auth.get_current_user) is an input of each  *)
(* action: any account of the users table.                                *)
(***************************************************************************)
EXTENDS Integers, FiniteSets, Sequences, TLC

VARIABLES users, products, carts, cart_items, addresses, orders,
          order_items, shipments, wishlists, reviews, next_id, session, event

\* users .. reviews   : the tables of models.py, primary key |-> row
\* next_id            : the next primary key of each table
\* session            : per request slot, where a request that has committed
\*                      and not yet answered stands, with its local variables
\* event              : the handler that ran last and its HTTP status
vars == <<users, products, carts, cart_items, addresses, orders,
          order_items, shipments, wishlists, reviews, next_id, session, event>>

(* ----------------------------- bounds ---------------------------------- *)
MaxProducts == 2
MaxCartItems == 2
MaxAddresses == 1
MaxOrders == 1
MaxShipments == 1
MaxWishlists == 2
MaxCarts == 3
FulfilMaxProducts == 1
FulfilMaxOrders == 2
BookMaxAddresses == 3
CatalogMaxProducts == 2
MaxReviews == 2

Prices == {1, 3}
Quantities == {1, 2}
Streets == {"s1", "s2"}
Cities == {"c1", "c2"}
ShipmentStatuses == {"in_transit"}
Slots == {1, 2}

(* ------------------------- schema and helpers -------------------------- *)
\* a NULL column / Python None
NULL == 0

\* the accounts that exist when the requests start: a customer, a seller
\* and an admin
InitialUsers == (1 :> [role |-> "customer", email |-> "e1"])
                @@ (2 :> [role |-> "seller", email |-> "e2"])
                @@ (3 :> [role |-> "admin", email |-> "e3"])

\* auth.get_current_seller: a seller or an admin
get_current_seller(u) == users[u].role \in {"seller", "admin"}
\* auth.get_current_admin
get_current_admin(u) == users[u].role = "admin"
\* auth.get_current_admin_or_seller
get_current_admin_or_seller(u) == users[u].role \in {"seller", "admin"}

\* the answer to the last request: the handler and its HTTP status, 0 while
\* the handler has not answered yet
Event(op, status) == [op |-> op, status |-> status]

\* a request slot with no request in progress
Idle == [pc |-> "idle"]

\* f without key k
Remove(f, k) == [x \in DOMAIN f \ {k} |-> f[x]]

\* db.add(row); db.commit() on a table: the row gets the next key
Insert(table, id, row) == table @@ (id :> row)

\* query(...).filter(col == v).first(): no ORDER BY, any matching row
Matching(table, col, v) == {id \in DOMAIN table : table[id][col] = v}

\* db.delete(parent): rows of a child table that reference it keep their
\* other columns and get a NULL foreign key (no delete cascade is declared)
NullifyFK(table, col, id) ==
    [x \in DOMAIN table |->
        IF table[x][col] = id THEN [table[x] EXCEPT ![col] = NULL] ELSE table[x]]

\* update.dict(exclude_unset=True) applied with setattr
ApplyUpdate(row, update) ==
    [f \in DOMAIN row |-> IF f \in DOMAIN update THEN update[f] ELSE row[f]]

Init ==
    /\ users = InitialUsers
    /\ products = <<>>
    /\ carts = <<>>
    /\ cart_items = <<>>
    /\ addresses = <<>>
    /\ orders = <<>>
    /\ order_items = <<>>
    /\ shipments = <<>>
    /\ wishlists = <<>>
    /\ reviews = <<>>
    /\ next_id = [products |-> 1, carts |-> 1, cart_items |-> 1, addresses |-> 1,
                  orders |-> 1, order_items |-> 1, shipments |-> 1, wishlists |-> 1,
                  reviews |-> 1]
    /\ session = [s \in Slots |-> Idle]
    /\ event = Event("start", 0)

(* ------------------------------- users --------------------------------- *)
\* main.py line 110: the roles admin_update_user_role accepts
Roles == {"customer", "seller", "admin"}

\* crud.get_user_by_email: the users with the address
crud_get_user_by_email(email) == {u \in DOMAIN users : users[u].email = email}

\* POST /users/: after the email test the handler calls crud.Signup, a name
\* crud.py does not define (the function is crud.create_user); the
\* AttributeError leaves the handler as a 500 and no row is added
signup(user) ==
    /\ event' = Event("signup",
                      IF crud_get_user_by_email(user.email) # {} THEN 400 ELSE 500)
    /\ UNCHANGED <<users, reviews, products, carts, cart_items, addresses, orders,
                   order_items, shipments, wishlists, next_id, session>>

\* crud.update_user: a role that is None or empty is skipped, any other
\* string is stored
crud_update_user(user, update) ==
    IF update.role # "" THEN [user EXCEPT !.role = update.role] ELSE user

\* PUT /users/
update_user(actor, update) ==
    /\ users' = [users EXCEPT ![actor] = crud_update_user(@, update)]
    /\ event' = Event("update_user", 200)
    /\ UNCHANGED <<reviews, products, carts, cart_items, addresses, orders,
                   order_items, shipments, wishlists, next_id, session>>

\* PUT /admin/users/{user_id}/role
admin_update_user_role(actor, user_id, update) ==
    /\ get_current_admin(actor)
    /\ IF user_id \notin DOMAIN users
       THEN /\ event' = Event("admin_update_user_role", 404)
            /\ users' = users
       ELSE IF update.role \notin Roles
       THEN /\ event' = Event("admin_update_user_role", 400)
            /\ users' = users
       ELSE /\ users' = [users EXCEPT ![user_id] = crud_update_user(@, update)]
            /\ event' = Event("admin_update_user_role", 200)
    /\ UNCHANGED <<reviews, products, carts, cart_items, addresses, orders,
                   order_items, shipments, wishlists, next_id, session>>

\* crud.del_user and the answer of its caller: db.delete(user) nulls the
\* foreign key of the rows that reference the user (no cascade is declared)
DeleteUserRequest(op, user_id) ==
    /\ IF user_id \in DOMAIN users
       THEN /\ users' = Remove(users, user_id)
            /\ addresses' = NullifyFK(addresses, "user_id", user_id)
            /\ orders' = NullifyFK(orders, "user_id", user_id)
            /\ carts' = NullifyFK(carts, "user_id", user_id)
            /\ reviews' = NullifyFK(reviews, "user_id", user_id)
            /\ wishlists' = NullifyFK(wishlists, "user_id", user_id)
            /\ products' = NullifyFK(products, "seller_id", user_id)
            /\ event' = Event(op, 200)
       ELSE /\ event' = Event(op, 404)
            /\ UNCHANGED <<users, addresses, orders, carts, reviews, wishlists,
                           products>>
    /\ UNCHANGED <<cart_items, order_items, shipments, next_id, session>>

\* the test of line 89 never refusing
DeleteForbiddenNever(actor, user_id) == FALSE
\* main.py line 89: neither an admin nor the account itself
DeleteForbidden(actor, user_id) ==
    users[actor].role # "admin" /\ actor # user_id

\* DELETE /users/{user_id}
delete_user_by_admin(actor, user_id) ==
    IF DeleteForbidden(actor, user_id)
    THEN /\ event' = Event("delete_user_by_admin", 403)
         /\ UNCHANGED <<users, reviews, products, carts, cart_items, addresses,
                        orders, order_items, shipments, wishlists, next_id, session>>
    ELSE DeleteUserRequest("delete_user_by_admin", user_id)

\* DELETE /users/
delete_own_user(actor) == DeleteUserRequest("delete_own_user", actor)

(* ------------------------------ products ------------------------------- *)
\* crud.create_product: the request body's columns, seller_id overridden
\* when the caller passes one
crud_create_product(body, seller_id) ==
    IF seller_id # NULL THEN [body EXCEPT !.seller_id = seller_id] ELSE body

\* POST /products/
create_product(actor, body) ==
    /\ LET seller_id == IF users[actor].role = "seller" THEN actor ELSE NULL
       IN products' = Insert(products, next_id.products,
                             crud_create_product(body, seller_id))
    /\ next_id' = [next_id EXCEPT !.products = @ + 1]
    /\ event' = Event("create_product", 201)
    /\ UNCHANGED <<users, reviews, carts, cart_items, addresses, orders, order_items,
                   shipments, wishlists, session>>

\* crud.update_product without the ownership test of line 86
crud_update_product_found(product_id, seller_id) ==
    product_id \in DOMAIN products
\* crud.update_product: TRUE when the row is found and, for a seller, owned
crud_update_product_allowed(product_id, seller_id) ==
    /\ product_id \in DOMAIN products
    /\ ~(seller_id # NULL /\ products[product_id].seller_id # seller_id)

\* PUT /seller/products/{product_id}
seller_update_product(actor, product_id, update) ==
    /\ get_current_seller(actor)
    /\ LET seller_id == IF users[actor].role = "seller" THEN actor ELSE NULL
       IN IF crud_update_product_allowed(product_id, seller_id)
          THEN /\ products' = [products EXCEPT
                                 ![product_id] = ApplyUpdate(@, update)]
               /\ event' = Event("seller_update_product", 200)
          ELSE /\ products' = products
               /\ event' = Event("seller_update_product", 404)
    /\ UNCHANGED <<users, reviews, carts, cart_items, addresses, orders, order_items,
                   shipments, wishlists, next_id, session>>

\* crud.delete_product letting every seller delete
crud_delete_product_any_seller(product_id, user_id, user_role) ==
    /\ product_id \in DOMAIN products
    /\ user_role \in {"admin", "seller"}
\* crud.delete_product: TRUE when the row is found and the caller may delete
crud_delete_product_allowed(product_id, user_id, user_role) ==
    /\ product_id \in DOMAIN products
    /\ \/ user_role = "admin"
       \/ user_role = "seller" /\ products[product_id].seller_id = user_id

\* Product.order_items declared with cascade="all, delete-orphan"
OrderItemsCascadeDelete(product_id) ==
    [i \in {x \in DOMAIN order_items : order_items[x].product_id # product_id}
        |-> order_items[i]]
\* order_items after db.delete(product): Product.order_items has no cascade
OrderItemsAfterProductDelete(product_id) ==
    NullifyFK(order_items, "product_id", product_id)

\* the body of seller_delete_product and admin_delete_product
DeleteProductRequest(op, actor, product_id) ==
    /\ IF crud_delete_product_allowed(product_id, actor, users[actor].role)
       THEN /\ products' = Remove(products, product_id)
            /\ cart_items' = NullifyFK(cart_items, "product_id", product_id)
            /\ order_items' = OrderItemsAfterProductDelete(product_id)
            /\ wishlists' = NullifyFK(wishlists, "product_id", product_id)
            /\ reviews' = NullifyFK(reviews, "product_id", product_id)
            /\ event' = Event(op, 200)
       ELSE /\ UNCHANGED <<products, cart_items, order_items, wishlists, reviews>>
            /\ event' = Event(op, 404)
    /\ UNCHANGED <<users, carts, addresses, orders, shipments, next_id, session>>

\* DELETE /seller/products/{product_id}
seller_delete_product(actor, product_id) ==
    /\ get_current_seller(actor)
    /\ DeleteProductRequest("seller_delete_product", actor, product_id)

\* DELETE /admin/products/{product_id}
admin_delete_product(actor, product_id) ==
    /\ get_current_admin(actor)
    /\ DeleteProductRequest("admin_delete_product", actor, product_id)

(* -------------------------------- cart --------------------------------- *)
\* crud.get_cart: the carts of the user (first() returns one of them)
crud_get_cart(user_id) == Matching(carts, "user_id", user_id)

\* crud.create_cart
crud_create_cart(user_id) == Insert(carts, next_id.carts, [user_id |-> user_id])

\* crud.add_cart_item
crud_add_cart_item(cart_id, item) ==
    Insert(cart_items, next_id.cart_items,
           [cart_id |-> cart_id, product_id |-> item.product_id,
            quantity |-> item.quantity])

\* GET /cart/, up to the lookup: answers when a cart is found
get_cart(s, actor) ==
    /\ session[s] = Idle
    /\ IF crud_get_cart(actor) # {}
       THEN /\ event' = Event("get_cart", 200)
            /\ session' = session
       ELSE /\ event' = Event("get_cart", 0)
            /\ session' = [session EXCEPT ![s] = [pc |-> "get_cart", user |-> actor]]
    /\ UNCHANGED <<users, reviews, products, carts, cart_items, addresses, orders,
                   order_items, shipments, wishlists, next_id>>

\* GET /cart/, the insert after a lookup that found nothing
get_cart_create(s) ==
    /\ session[s].pc = "get_cart"
    /\ carts' = crud_create_cart(session[s].user)
    /\ next_id' = [next_id EXCEPT !.carts = @ + 1]
    /\ session' = [session EXCEPT ![s] = Idle]
    /\ event' = Event("get_cart", 200)
    /\ UNCHANGED <<users, reviews, products, cart_items, addresses, orders, order_items,
                   shipments, wishlists>>

\* POST /cart/items, up to the lookup: adds the line when a cart is found
add_item_to_cart(s, actor, item) ==
    /\ session[s] = Idle
    /\ IF crud_get_cart(actor) # {}
       THEN /\ \E c \in crud_get_cart(actor) :
                  cart_items' = crud_add_cart_item(c, item)
            /\ next_id' = [next_id EXCEPT !.cart_items = @ + 1]
            /\ event' = Event("add_item_to_cart", 200)
            /\ session' = session
       ELSE /\ event' = Event("add_item_to_cart", 0)
            /\ session' = [session EXCEPT ![s] =
                             [pc |-> "add_item_to_cart", user |-> actor, item |-> item]]
            /\ UNCHANGED <<cart_items, next_id>>
    /\ UNCHANGED <<users, reviews, products, carts, addresses, orders, order_items,
                   shipments, wishlists>>

\* POST /cart/items, the cart insert and the line insert after a lookup
\* that found nothing.  The product may have been deleted since the request
\* came in: a store that enforces foreign keys refuses the line, another
\* keeps it with a product_id that refers to nothing
add_item_to_cart_create(s) ==
    /\ session[s].pc = "add_item_to_cart"
    /\ carts' = crud_create_cart(session[s].user)
    /\ \/ /\ cart_items' = crud_add_cart_item(next_id.carts, session[s].item)
          /\ next_id' = [next_id EXCEPT !.carts = @ + 1, !.cart_items = @ + 1]
          /\ event' = Event("add_item_to_cart", 200)
       \/ /\ session[s].item.product_id \notin DOMAIN products
          /\ cart_items' = cart_items
          /\ next_id' = [next_id EXCEPT !.carts = @ + 1]
          /\ event' = Event("add_item_to_cart", 500)
    /\ session' = [session EXCEPT ![s] = Idle]
    /\ UNCHANGED <<users, reviews, products, addresses, orders, order_items, shipments,
                   wishlists>>

\* main.update_cart_item line 246: the requester may touch the item
CartItemAllowed(actor, cart_id) ==
    ~(carts[cart_id].user_id # actor /\ users[actor].role # "admin")

\* crud.update_cart_item: the table after the call
crud_update_cart_item(cart_item_id, quantity) ==
    IF cart_item_id \in DOMAIN cart_items
    THEN [cart_items EXCEPT ![cart_item_id].quantity = quantity]
    ELSE cart_items

\* PUT /cart/items/{cart_item_id}: crud.update_cart_item runs first, the
\* ownership test reads the row it returned
update_cart_item(actor, cart_item_id, quantity) ==
    /\ cart_items' = crud_update_cart_item(cart_item_id, quantity)
    /\ event' = Event("update_cart_item",
                      IF cart_item_id \notin DOMAIN cart_items THEN 404
                      ELSE IF ~CartItemAllowed(actor, cart_items[cart_item_id].cart_id)
                           THEN 403 ELSE 200)
    /\ UNCHANGED <<users, reviews, products, carts, addresses, orders, order_items,
                   shipments, wishlists, next_id, session>>

\* crud.remove_cart_item: the table after the call
crud_remove_cart_item(cart_item_id) ==
    IF cart_item_id \in DOMAIN cart_items
    THEN Remove(cart_items, cart_item_id) ELSE cart_items

\* DELETE /cart/items/{cart_item_id}
delete_cart_item(actor, cart_item_id) ==
    /\ IF cart_item_id \notin DOMAIN cart_items
       THEN /\ event' = Event("delete_cart_item", 404)
            /\ cart_items' = cart_items
       ELSE IF cart_items[cart_item_id].cart_id \notin DOMAIN carts
       THEN /\ event' = Event("delete_cart_item", 404)
            /\ cart_items' = cart_items
       ELSE IF ~CartItemAllowed(actor, cart_items[cart_item_id].cart_id)
       THEN /\ event' = Event("delete_cart_item", 403)
            /\ cart_items' = cart_items
       ELSE /\ event' = Event("delete_cart_item", 200)
            /\ cart_items' = crud_remove_cart_item(cart_item_id)
    /\ UNCHANGED <<users, reviews, products, carts, addresses, orders, order_items,
                   shipments, wishlists, next_id, session>>

(* ------------------------------ addresses ------------------------------ *)
\* POST /addresses/
add_address(actor, address) ==
    /\ addresses' = Insert(addresses, next_id.addresses,
                           [user_id |-> actor, street |-> address.street,
                            city |-> address.city])
    /\ next_id' = [next_id EXCEPT !.addresses = @ + 1]
    /\ event' = Event("add_address", 200)
    /\ UNCHANGED <<users, reviews, products, carts, cart_items, orders, order_items,
                   shipments, wishlists, session>>

\* crud.get_address(db, user_id): filters on Address.id == user_id
crud_get_address(user_id) == {id \in DOMAIN addresses : id = user_id}

\* PUT /addresses/update
update_address(actor, update) ==
    /\ IF crud_get_address(actor) = {}
       THEN /\ event' = Event("update_address", 404)
            /\ addresses' = addresses
       ELSE \E a \in crud_get_address(actor) :
            /\ addresses' = [addresses EXCEPT ![a] = ApplyUpdate(@, update)]
            /\ event' = Event("update_address", 200)
    /\ UNCHANGED <<users, reviews, products, carts, cart_items, orders, order_items,
                   shipments, wishlists, next_id, session>>

(* ------------------------------- orders -------------------------------- *)
\* the ValueError messages of create_order_from_cart_for_user, word by word
MsgCartNotFound == <<"Cart", "not", "found", "for", "this", "user">>
MsgAddressNotFound == <<"Address", "not", "found", "for", "this", "user">>
MsgCartEmpty == <<"Cart", "is", "empty">>

\* str.lower()
Lower(msg) ==
    [i \in DOMAIN msg |->
        CASE msg[i] = "Cart" -> "cart"
          [] msg[i] = "Address" -> "address"
          [] OTHER -> msg[i]]

\* phrase in msg
Contains(msg, phrase) ==
    \E i \in 0..(Len(msg) - Len(phrase)) :
        SubSeq(msg, i + 1, i + Len(phrase)) = phrase

\* the except branch matching the capitalised phrase against the lowered text
OrderErrorStatusCased(e) ==
    LET msg == Lower(e)
    IN IF Contains(msg, <<"Not", "found">>) THEN 404
       ELSE IF Contains(msg, <<"Empty">>) THEN 400
       ELSE 400
\* main.create_order_from_cart, the except branch: ValueError to HTTP status
OrderErrorStatus(e) ==
    LET msg == Lower(e)
    IN IF Contains(msg, <<"not", "found">>) THEN 404
       ELSE IF Contains(msg, <<"empty">>) THEN 400
       ELSE 400

\* crud.py line 163: if not cart
CartMissing(user_id) == Matching(carts, "user_id", user_id) = {}
\* crud.py line 167: if not address
AddressMissing(user_id) == Matching(addresses, "user_id", user_id) = {}
\* line 171 with the test dropped
CartIsEmptyUnchecked(items) == FALSE
\* crud.py line 171: if not cart_items
CartIsEmpty(items) == items = {}

\* crud.py line 185: price=item.product.price
SnapshotPrice(product_id) == products[product_id].price
\* line 188 with the quantity forgotten
LineAmountPriceOnly(quantity, price) == price
\* crud.py line 188: item.quantity * item.product.price
LineAmount(quantity, price) == quantity * price

RECURSIVE CartTotal(_)
\* crud.py lines 179-188: the total accumulated over the cart lines
CartTotal(items) ==
    IF items = {} THEN 0
    ELSE LET i == CHOOSE x \in items : TRUE
         IN LineAmount(cart_items[i].quantity,
                       SnapshotPrice(cart_items[i].product_id))
            + CartTotal(items \ {i})

\* the loop storing the line's amount in the price column
NewOrderItemsLineAmount(order_id, items) ==
    [k \in next_id.order_items..(next_id.order_items + Cardinality(items) - 1) |->
        LET i == CHOOSE x \in items :
                    Cardinality({y \in items : y <= x}) = k - next_id.order_items + 1
        IN [order_id |-> order_id,
            product_id |-> cart_items[i].product_id,
            quantity |-> cart_items[i].quantity,
            price |-> LineAmount(cart_items[i].quantity,
                                 SnapshotPrice(cart_items[i].product_id))]]

\* the OrderItem rows built by the loop, keyed in the order of the cart lines
NewOrderItems(order_id, items) ==
    [k \in next_id.order_items..(next_id.order_items + Cardinality(items) - 1) |->
        LET i == CHOOSE x \in items :
                    Cardinality({y \in items : y <= x}) = k - next_id.order_items + 1
        IN [order_id |-> order_id,
            product_id |-> cart_items[i].product_id,
            quantity |-> cart_items[i].quantity,
            price |-> SnapshotPrice(cart_items[i].product_id)]]

\* the loop deleting each cart line it has turned into an OrderItem
CartItemsCleared(items) ==
    [i \in DOMAIN cart_items \ items |-> cart_items[i]]
\* crud.py lines 180-191: the loop reads the cart lines and deletes none
CartItemsAfterPlacement(items) == cart_items

\* the request answers with an error and changes nothing
OrderRejected(actor, e) ==
    /\ event' = Event("create_order_from_cart", OrderErrorStatus(e))
    /\ UNCHANGED <<orders, next_id, session>>

\* POST /orders/, crud.py lines 162-177: the three checks, then the Order
\* row with total_amount 0 is committed
create_order_from_cart(s, actor) ==
    /\ session[s] = Idle
    /\ IF CartMissing(actor) THEN OrderRejected(actor, MsgCartNotFound)
       ELSE IF AddressMissing(actor) THEN OrderRejected(actor, MsgAddressNotFound)
       ELSE \E c \in Matching(carts, "user_id", actor),
               a \in Matching(addresses, "user_id", actor) :
            LET items == Matching(cart_items, "cart_id", c)
            IN IF CartIsEmpty(items) THEN OrderRejected(actor, MsgCartEmpty)
               ELSE /\ orders' = Insert(orders, next_id.orders,
                                        [user_id |-> actor, address_id |-> a,
                                         total_amount |-> 0, status |-> "pending"])
                    /\ next_id' = [next_id EXCEPT !.orders = @ + 1]
                    /\ session' = [session EXCEPT ![s] =
                                     [pc |-> "create_order", user |-> actor,
                                      order |-> next_id.orders, items |-> items]]
                    /\ event' = Event("create_order_from_cart", 0)
    /\ UNCHANGED <<users, reviews, products, carts, cart_items, addresses, order_items,
                   shipments, wishlists>>

\* a cart line read at line 170 that the loop cannot turn into an OrderItem:
\* its row is gone (the expired instance cannot be refreshed) or it has no
\* product (item.product is None)
LineUnusable(i) ==
    \/ i \notin DOMAIN cart_items
    \/ cart_items[i].product_id \notin DOMAIN products

\* POST /orders/, crud.py lines 179-192: the loop and the second commit, one
\* database transaction; an exception in the loop leaves it uncommitted
create_order_from_cart_commit(s) ==
    /\ session[s].pc = "create_order"
    /\ LET o == session[s].order
           items == session[s].items
       IN IF \E i \in items : LineUnusable(i)
          THEN /\ event' = Event("create_order_from_cart", 500)
               /\ UNCHANGED <<orders, order_items, cart_items, next_id>>
          ELSE /\ order_items' = order_items @@ NewOrderItems(o, items)
               /\ orders' = [orders EXCEPT ![o].total_amount = CartTotal(items)]
               /\ cart_items' = CartItemsAfterPlacement(items)
               /\ next_id' = [next_id EXCEPT !.order_items = @ + Cardinality(items)]
               /\ event' = Event("create_order_from_cart", 200)
    /\ session' = [session EXCEPT ![s] = Idle]
    /\ UNCHANGED <<users, reviews, products, carts, addresses, shipments,
                   wishlists>>

(* ------------------------------ shipments ------------------------------ *)
\* POST /shipments/
create_shipment(actor, shipment) ==
    /\ get_current_admin_or_seller(actor)
    /\ IF shipment.order_id \notin DOMAIN orders
       THEN /\ event' = Event("create_shipment", 400)
            /\ UNCHANGED <<shipments, next_id>>
       ELSE /\ shipments' = Insert(shipments, next_id.shipments,
                                   [order_id |-> shipment.order_id,
                                    status |-> IF shipment.status # ""
                                               THEN shipment.status
                                               ELSE "preparing"])
            /\ next_id' = [next_id EXCEPT !.shipments = @ + 1]
            /\ event' = Event("create_shipment", 201)
    /\ UNCHANGED <<users, reviews, products, carts, cart_items, addresses, orders,
                   order_items, wishlists, session>>

\* PUT /shipments/{shipment_id}
update_shipment(actor, shipment_id, status) ==
    /\ get_current_admin_or_seller(actor)
    /\ IF shipment_id \notin DOMAIN shipments
       THEN /\ event' = Event("update_shipment", 404)
            /\ shipments' = shipments
       ELSE /\ shipments' = [shipments EXCEPT ![shipment_id].status = status]
            /\ event' = Event("update_shipment", 200)
    /\ UNCHANGED <<users, reviews, products, carts, cart_items, addresses, orders,
                   order_items, wishlists, next_id, session>>

(* ------------------------------ wishlist ------------------------------- *)
\* the lookup of crud.add_to_wishlist finding nothing
WishlistExistingNone(user_id, product_id) == {}
\* crud.py lines 251-254: the rows the user already has for the product
WishlistExisting(user_id, product_id) ==
    {w \in DOMAIN wishlists : /\ wishlists[w].user_id = user_id
                              /\ wishlists[w].product_id = product_id}

\* POST /wishlist/: crud.add_to_wishlist returns a row the user already has
\* for the product, or inserts one and returns it; the answer carries the
\* row's id
add_to_wishlist(actor, product_id) ==
    /\ LET exists == WishlistExisting(actor, product_id)
       IN IF exists # {}
          THEN /\ \E w \in exists :
                     event' = [op |-> "add_to_wishlist", status |-> 201, id |-> w]
               /\ UNCHANGED <<wishlists, next_id>>
          ELSE /\ wishlists' = Insert(wishlists, next_id.wishlists,
                                      [user_id |-> actor, product_id |-> product_id])
               /\ next_id' = [next_id EXCEPT !.wishlists = @ + 1]
               /\ event' = [op |-> "add_to_wishlist", status |-> 201,
                            id |-> next_id.wishlists]
    /\ UNCHANGED <<users, reviews, products, carts, cart_items, addresses, orders,
                   order_items, shipments, session>>

\* crud.remove_from_wishlist: the table after the call
crud_remove_from_wishlist(wishlist_id) ==
    IF wishlist_id \in DOMAIN wishlists
    THEN Remove(wishlists, wishlist_id) ELSE wishlists

\* DELETE /wishlist/{wishlist_id}: crud.remove_from_wishlist runs first, the
\* ownership test reads the row it returned
remove_wishlist(actor, wishlist_id) ==
    /\ wishlists' = crud_remove_from_wishlist(wishlist_id)
    /\ event' = Event("remove_wishlist",
                      IF wishlist_id \notin DOMAIN wishlists THEN 404
                      ELSE IF /\ wishlists[wishlist_id].user_id # actor
                              /\ users[actor].role # "admin"
                           THEN 403 ELSE 204)
    /\ UNCHANGED <<users, reviews, products, carts, cart_items, addresses, orders,
                   order_items, shipments, next_id, session>>

(* ------------------------------- reviews ------------------------------- *)
\* the test of crud.py line 276 without its lower bound
RatingOutOfRangeAbove(rating) == rating > 5
\* crud.py line 276: the rating is refused
RatingOutOfRange(rating) == rating < 1 \/ rating > 5

\* POST /reviews/: the ValueError of crud.create_review is answered 400
add_review(actor, review) ==
    /\ IF RatingOutOfRange(review.rating)
       THEN /\ event' = Event("add_review", 400)
            /\ UNCHANGED <<reviews, next_id>>
       ELSE /\ reviews' = Insert(reviews, next_id.reviews,
                                 [user_id |-> actor,
                                  product_id |-> review.product_id,
                                  rating |-> review.rating])
            /\ next_id' = [next_id EXCEPT !.reviews = @ + 1]
            /\ event' = Event("add_review", 201)
    /\ UNCHANGED <<users, products, carts, cart_items, addresses, orders,
                   order_items, shipments, wishlists, session>>

(* --------------------------- specifications ---------------------------- *)
\* the inputs the requests are drawn from
Actors == DOMAIN users
Shoppers == {1}
Sellers == {u \in DOMAIN users : users[u].role = "seller"}
OrderSlots == {1}
ProductBodies == {[price |-> p, seller_id |-> NULL] : p \in Prices}
ProductUpdates == {[price |-> p] : p \in Prices}
CartItemBodies == {[product_id |-> p, quantity |-> q] :
                      p \in DOMAIN products, q \in Quantities}
HomeAddress == [street |-> "s1", city |-> "c1"]
AddressBodies == {[street |-> st, city |-> c] : st \in Streets, c \in Cities}
AddressUpdates == {[street |-> st] : st \in Streets}
                  \cup {[city |-> c] : c \in Cities}
ShipmentBodies(max) == {[order_id |-> o, status |-> st] :
                           o \in 1..max, st \in {"", "in_transit"}}

\* the sequences stay within the bounds
RoomFor(table, max) == next_id[table] <= max

\* requests on the catalogue, with at most max products ever created
ProductRequests(max) ==
    \/ \E u \in Sellers, b \in ProductBodies :
          RoomFor("products", max) /\ create_product(u, b)
    \/ \E u \in Actors, p \in 1..max, b \in ProductUpdates :
          seller_update_product(u, p, b)
    \/ \E u \in Actors, p \in 1..max : seller_delete_product(u, p)
    \/ \E u \in Actors, p \in 1..max : admin_delete_product(u, p)

\* requests on the cart lines of the shoppers
CartRequests ==
    \/ \E s \in OrderSlots, u \in Shoppers, i \in CartItemBodies :
          RoomFor("cart_items", MaxCartItems) /\ add_item_to_cart(s, u, i)
    \/ \E s \in OrderSlots :
          RoomFor("cart_items", MaxCartItems) /\ add_item_to_cart_create(s)
    \/ \E u \in Actors, i \in 1..MaxCartItems, q \in Quantities :
          update_cart_item(u, i, q)
    \/ \E u \in Actors, i \in 1..MaxCartItems : delete_cart_item(u, i)

\* order placement by the shoppers, with at most max orders ever created
OrderRequests(max) ==
    \/ \E u \in Shoppers :
          RoomFor("addresses", MaxAddresses) /\ add_address(u, HomeAddress)
    \/ \E s \in OrderSlots, u \in Shoppers :
          RoomFor("orders", max) /\ create_order_from_cart(s, u)
    \/ \E s \in OrderSlots : create_order_from_cart_commit(s)

\* shipments of the orders 1..max
ShipmentRequests(max) ==
    \/ \E u \in Actors, b \in ShipmentBodies(max) :
          RoomFor("shipments", MaxShipments) /\ create_shipment(u, b)
    \/ \E u \in Actors, i \in 1..MaxShipments, st \in ShipmentStatuses :
          update_shipment(u, i, st)

\* the catalogue, the carts and order placement
Next == ProductRequests(MaxProducts) \/ CartRequests \/ OrderRequests(MaxOrders)

Spec == Init /\ [][Next]_vars

\* order placement and everything that can happen to an order afterwards
NextFulfil ==
    \/ ProductRequests(FulfilMaxProducts)
    \/ CartRequests
    \/ OrderRequests(FulfilMaxOrders)
    \/ ShipmentRequests(FulfilMaxOrders)

SpecFulfil == Init /\ [][NextFulfil]_vars

\* concurrent requests of the same users on their carts
NextCart ==
    \/ \E u \in Sellers, b \in ProductBodies :
          RoomFor("products", FulfilMaxProducts) /\ create_product(u, b)
    \/ \E s \in Slots, u \in Actors : get_cart(s, u)
    \/ \E s \in Slots : RoomFor("carts", MaxCarts) /\ get_cart_create(s)
    \/ \E s \in Slots, u \in Actors, i \in CartItemBodies :
          RoomFor("cart_items", MaxCartItems) /\ add_item_to_cart(s, u, i)
    \/ \E s \in Slots :
          /\ RoomFor("carts", MaxCarts)
          /\ RoomFor("cart_items", MaxCartItems)
          /\ add_item_to_cart_create(s)

SpecCart == Init /\ [][NextCart]_vars

\* the wishlists
NextWishlist ==
    \/ ProductRequests(FulfilMaxProducts)
    \/ \E u \in Actors, p \in DOMAIN products :
          /\ RoomFor("wishlists", MaxWishlists) \/ WishlistExisting(u, p) # {}
          /\ add_to_wishlist(u, p)
    \/ \E u \in Actors, w \in 1..MaxWishlists : remove_wishlist(u, w)

SpecWishlist == Init /\ [][NextWishlist]_vars

\* the address book
NextAddress ==
    \/ \E u \in Actors, b \in AddressBodies :
          RoomFor("addresses", BookMaxAddresses) /\ add_address(u, b)
    \/ \E u \in Actors, b \in AddressUpdates : update_address(u, b)

SpecAddress == Init /\ [][NextAddress]_vars

\* the catalogue with sellers that come and go: a request body may name a
\* seller_id, an account may change its role
CatalogBodies == {[price |-> p, seller_id |-> sid] :
                     p \in Prices, sid \in {NULL, 2}}
CatalogUpdates == ProductUpdates
                  \cup {[price |-> p, seller_id |-> sid] :
                           p \in Prices, sid \in {NULL, 1, 2}}
CatalogRoleUpdates == {[role |-> r] : r \in {"seller", "customer"}}

NextCatalog ==
    \/ \E u \in Actors, b \in CatalogRoleUpdates : update_user(u, b)
    \/ \E u \in Actors, b \in CatalogBodies :
          RoomFor("products", CatalogMaxProducts) /\ create_product(u, b)
    \/ \E u \in Actors, p \in 1..CatalogMaxProducts, b \in CatalogUpdates :
          seller_update_product(u, p, b)
    \/ \E u \in Actors, p \in 1..CatalogMaxProducts : seller_delete_product(u, p)
    \/ \E u \in Actors, p \in 1..CatalogMaxProducts : admin_delete_product(u, p)

SpecCatalog == Init /\ [][NextCatalog]_vars

\* the accounts: sign-up, self-service and administration
SignupBodies == {[email |-> e, role |-> r] :
                    e \in {"e1", "e4"}, r \in {"customer", "superuser"}}
UserUpdates == {[role |-> r] : r \in {"", "seller", "admin", "superuser"}}
UserIds == 1..4

NextUsers ==
    \/ \E b \in SignupBodies : signup(b)
    \/ \E u \in Actors, b \in UserUpdates : update_user(u, b)
    \/ \E u \in Actors, t \in UserIds, b \in UserUpdates :
          admin_update_user_role(u, t, b)
    \/ \E u \in Actors, t \in UserIds : delete_user_by_admin(u, t)
    \/ \E u \in Actors : delete_own_user(u)
    \/ \E u \in Actors :
          RoomFor("addresses", MaxAddresses) /\ add_address(u, HomeAddress)

SpecUsers == Init /\ [][NextUsers]_vars

\* the reviews of the catalogue
Ratings == {-1, 0, 1, 5, 6}
ReviewBodies == {[product_id |-> p, rating |-> r] :
                    p \in DOMAIN products, r \in Ratings}

NextReviews ==
    \/ ProductRequests(FulfilMaxProducts)
    \/ \E u \in Actors, b \in ReviewBodies :
          /\ RoomFor("reviews", MaxReviews) \/ RatingOutOfRange(b.rating)
          /\ add_review(u, b)

SpecReviews == Init /\ [][NextReviews]_vars

\* the cart lines with any integer quantity a request may carry
AnyQuantities == {-1, 0, 1}
BasketItemBodies == {[product_id |-> p, quantity |-> q] :
                        p \in DOMAIN products, q \in AnyQuantities}

NextBasket ==
    \/ \E u \in Sellers, b \in ProductBodies :
          RoomFor("products", FulfilMaxProducts) /\ create_product(u, b)
    \/ \E s \in OrderSlots, u \in Actors, i \in BasketItemBodies :
          RoomFor("cart_items", MaxCartItems) /\ add_item_to_cart(s, u, i)
    \/ \E s \in OrderSlots :
          RoomFor("cart_items", MaxCartItems) /\ add_item_to_cart_create(s)
    \/ \E u \in Actors, i \in 1..MaxCartItems, q \in AnyQuantities :
          update_cart_item(u, i, q)
    \/ \E u \in Actors, i \in 1..MaxCartItems : delete_cart_item(u, i)

SpecBasket == Init /\ [][NextBasket]_vars

(* ------------------------------- claims -------------------------------- *)
\* the OrderItem rows of an order
ItemsOf(o) == {i \in DOMAIN order_items : order_items[i].order_id = o}

RECURSIVE ItemsSum(_)
\* the sum of price * quantity over a set of OrderItem rows
ItemsSum(items) ==
    IF items = {} THEN 0
    ELSE LET i == CHOOSE x \in items : TRUE
         IN order_items[i].price * order_items[i].quantity + ItemsSum(items \ {i})

\* the order is being built by a request between its two commits
InFlight(o) ==
    \E s \in Slots : session[s].pc = "create_order" /\ session[s].order = o

\* C1: in every committed state, every order's total_amount is the sum of
\* price * quantity over its OrderItem rows, the state between the two
\* commits of order placement included.
C1_TotalIsSumOfItems ==
    \A o \in DOMAIN orders : orders[o].total_amount = ItemsSum(ItemsOf(o))

\* an order of two lines, one of them with quantity 2 and the lines priced
\* differently, has been placed
C1_Witness ==
    \E o \in DOMAIN orders :
        /\ Cardinality(ItemsOf(o)) = 2
        /\ \E i, j \in ItemsOf(o) :
              /\ order_items[i].quantity = 2
              /\ order_items[i].price # order_items[j].price

\* C2: order placement is all-or-nothing: an order that no request is still
\* building has its OrderItem rows; a failed placement leaves no Order row.
C2_AllOrNothing ==
    \A o \in DOMAIN orders : ~InFlight(o) => ItemsOf(o) # {}

\* C4: every OrderItem created by order placement carries the price its
\* product has at placement, whatever the price was when the line was added,
\* and the order's total is computed from those prices.
C4_PriceAtPlacement ==
    [][/\ \A i \in DOMAIN order_items' \ DOMAIN order_items :
            /\ order_items'[i].product_id \in DOMAIN products
            /\ order_items'[i].price = products[order_items'[i].product_id].price
       /\ \A o \in DOMAIN orders :
            (\E i \in DOMAIN order_items' \ DOMAIN order_items :
                order_items'[i].order_id = o)
            => orders'[o].total_amount = (ItemsSum(ItemsOf(o)))']_vars

\* one cart line was ever added and two orders placed from it carry different
\* prices: the price changed after the line was added and placement used it
C4_Witness ==
    /\ next_id.cart_items = 2
    /\ \E i, j \in DOMAIN order_items :
          /\ order_items[i].order_id # order_items[j].order_id
          /\ order_items[i].price # order_items[j].price

\* C6: placing an order with a cart and an address but no cart line is
\* answered 400 and leaves the Order and OrderItem tables unchanged.
C6_EmptyCartRejected ==
    [][\A s \in Slots, u \in Actors :
          (/\ event'.op = "create_order_from_cart"
           /\ ~CartMissing(u)
           /\ ~AddressMissing(u)
           /\ \A c \in Matching(carts, "user_id", u) :
                 Matching(cart_items, "cart_id", c) = {}
           /\ create_order_from_cart(s, u))
          => (/\ event'.status = 400
              /\ orders' = orders
              /\ order_items' = order_items)]_vars

\* a shopper with a cart, an address and no cart line has just been refused
C6_Witness ==
    /\ event = Event("create_order_from_cart", 400)
    /\ \E u \in Shoppers :
          /\ ~CartMissing(u)
          /\ ~AddressMissing(u)
          /\ \A c \in Matching(carts, "user_id", u) :
                Matching(cart_items, "cart_id", c) = {}

\* C7: placing an order without a cart, or without an address, is answered
\* 404 and creates no Order and no OrderItem row.
C7_MissingCartOrAddress ==
    [][\A s \in Slots, u \in Actors :
          (/\ event'.op = "create_order_from_cart"
           /\ (CartMissing(u) \/ AddressMissing(u))
           /\ create_order_from_cart(s, u))
          => (/\ event'.status = 404
              /\ orders' = orders
              /\ order_items' = order_items)]_vars

\* a shopper with a filled cart and no address has just been refused
C7_Witness ==
    /\ event = Event("create_order_from_cart", 404)
    /\ \E u \in Shoppers :
          /\ AddressMissing(u)
          /\ \E c \in Matching(carts, "user_id", u) :
                Matching(cart_items, "cart_id", c) # {}

\* C8: a cart line is changed or removed only for the owner of its cart or
\* an admin; any other requester is answered 403 and the line is as before.
C8_CartItemOwnership ==
    [][/\ \A u \in Actors, i \in DOMAIN cart_items, q \in Quantities :
            (/\ event'.op = "update_cart_item"
             /\ ~CartItemAllowed(u, cart_items[i].cart_id)
             /\ update_cart_item(u, i, q))
            => (event'.status = 403 /\ cart_items' = cart_items)
       /\ \A u \in Actors, i \in DOMAIN cart_items :
            (/\ event'.op = "delete_cart_item"
             /\ ~CartItemAllowed(u, cart_items[i].cart_id)
             /\ delete_cart_item(u, i))
            => (event'.status = 403 /\ cart_items' = cart_items)]_vars

\* C3: every user has at most one cart, also when two requests of the same
\* user that both find no cart interleave their lookup and their insert.
C3_OneCartPerUser ==
    \A u \in Actors : Cardinality(crud_get_cart(u)) <= 1

\* the order's placement has returned it
Placed(o) == o \in DOMAIN orders /\ ~InFlight(o) /\ ItemsOf(o) # {}

\* C5: once order placement has returned an order, no later operation
\* changes its total_amount or the price or quantity of any of its items.
C5_PlacedOrderFrozen ==
    [][\A o \in DOMAIN orders :
          Placed(o) =>
             /\ o \in DOMAIN orders'
             /\ orders'[o].total_amount = orders[o].total_amount
             /\ \A i \in DOMAIN order_items' :
                   order_items'[i].order_id = o => i \in ItemsOf(o)
             /\ \A i \in ItemsOf(o) :
                   /\ i \in DOMAIN order_items'
                   /\ order_items'[i].order_id = o
                   /\ order_items'[i].price = order_items[i].price
                   /\ order_items'[i].quantity = order_items[i].quantity]_vars

\* a placed order has a shipment in transit, its product has been deleted,
\* its cart line is gone and a later order was placed at another price
C5_Witness ==
    \E o \in DOMAIN orders :
        /\ Placed(o)
        /\ \E sh \in DOMAIN shipments :
              shipments[sh].order_id = o /\ shipments[sh].status = "in_transit"
        /\ \E i \in ItemsOf(o) : order_items[i].product_id = NULL
        /\ cart_items = <<>>
        /\ \E o2 \in DOMAIN orders :
              /\ o2 # o
              /\ Placed(o2)
              /\ \E i \in ItemsOf(o), j \in ItemsOf(o2) :
                    order_items[i].price # order_items[j].price

\* C9: a wishlist row is removed only for its owner or an admin; any other
\* requester is answered 403 and the row still exists afterwards.
C9_WishlistOwnership ==
    [][\A u \in Actors, w \in DOMAIN wishlists :
          (/\ event'.op = "remove_wishlist"
           /\ wishlists[w].user_id # u
           /\ users[u].role # "admin"
           /\ remove_wishlist(u, w))
          => (event'.status = 403 /\ w \in DOMAIN wishlists')]_vars

\* C10: PUT /addresses/update issued by a user only ever modifies an address
\* row of that user.
C10_OwnAddressOnly ==
    [][\A u \in Actors, b \in AddressUpdates :
          (event'.op = "update_address" /\ update_address(u, b))
          => \A a \in DOMAIN addresses :
                addresses'[a] # addresses[a] => addresses[a].user_id = u]_vars

\* C11: a PUT /seller/products/{id} by a seller on a product whose seller_id
\* names somebody else is answered 404 and leaves every product as it was,
\* whatever creations and updates came before.
C11_OtherSellerUpdateRejected ==
    [][\A t \in Actors, p \in DOMAIN products, b \in CatalogUpdates :
          (/\ event'.op = "seller_update_product"
           /\ users[t].role = "seller"
           /\ products[p].seller_id # NULL
           /\ products[p].seller_id # t
           /\ seller_update_product(t, p, b))
          => (event'.status = 404 /\ products' = products)]_vars

\* every product exists and belongs to seller 2, account 1 has become a
\* seller, and an update has just been refused: the admin and the owner are
\* never refused on an existing product, so another seller was
C11_Witness ==
    /\ event = Event("seller_update_product", 404)
    /\ DOMAIN products = 1..CatalogMaxProducts
    /\ \A p \in DOMAIN products : products[p].seller_id = 2
    /\ users[1].role = "seller"
    /\ users[2].role = "seller"
    /\ users[3].role = "admin"

\* C12: delete_product removes the product only for an admin, or for a
\* seller whose id is the product's seller_id; for any other caller, as for a
\* missing product, the answer is 404 and the products are as before.
C12_DeleteProductAuthorized ==
    [][\A u \in Actors, p \in 1..CatalogMaxProducts :
          \A op \in {"seller_delete_product", "admin_delete_product"} :
             (event'.op = op /\ DeleteProductRequest(op, u, p))
             => IF /\ p \in DOMAIN products
                   /\ \/ users[u].role = "admin"
                      \/ users[u].role = "seller" /\ products[p].seller_id = u
                THEN event'.status = 200 /\ p \notin DOMAIN products'
                ELSE event'.status = 404 /\ products' = products]_vars

\* no product has been deleted yet, so the delete that has just been refused
\* aimed at an existing product: its requester was a seller that does not
\* own it
C12_Witness ==
    /\ event = Event("seller_delete_product", 404)
    /\ DOMAIN products = 1..CatalogMaxProducts
    /\ \E p \in DOMAIN products : products[p].seller_id = 2
    /\ users[2].role = "seller"

\* C19: a product created through POST /products/ has the creator's id as
\* seller_id when the creator is a seller and a null seller_id otherwise,
\* whatever seller_id the request body carries.
C19_SellerIdOnlyFromSeller ==
    [][\A u \in Actors, b \in CatalogBodies :
          (event'.op = "create_product" /\ create_product(u, b))
          => products'[next_id.products].seller_id =
                IF users[u].role = "seller" THEN u ELSE NULL]_vars

\* C13: DELETE /users/{user_id} by a requester that is neither the target
\* nor an admin is answered 403 and leaves the users as they were; a
\* permitted request removes exactly the target, or is answered 404 when
\* there is no such user.
C13_DeleteUserSelfOrAdmin ==
    [][\A a \in Actors, t \in UserIds :
          (event'.op = "delete_user_by_admin" /\ delete_user_by_admin(a, t))
          => IF a # t /\ users[a].role # "admin"
             THEN event'.status = 403 /\ users' = users
             ELSE IF t \in DOMAIN users
             THEN /\ event'.status = 200
                  /\ DOMAIN users' = DOMAIN users \ {t}
                  /\ \A u \in DOMAIN users' : users'[u] = users[u]
             ELSE event'.status = 404 /\ users' = users]_vars

\* an account has been deleted, its address is left without a user, and a
\* remaining account that is not an admin has just been refused
C13_Witness ==
    /\ event = Event("delete_user_by_admin", 403)
    /\ DOMAIN users # DOMAIN InitialUsers
    /\ \E a \in DOMAIN addresses : addresses[a].user_id = NULL
    /\ \E u \in DOMAIN users : users[u].role # "admin"

\* C14: POST /users/ with an email nobody has adds exactly one user, with
\* that email; with a registered email it is answered 400 and adds nothing.
C14_SignupUniqueEmail ==
    [][\A b \in SignupBodies :
          (event'.op = "signup" /\ signup(b))
          => IF crud_get_user_by_email(b.email) = {}
             THEN \E n \in DOMAIN users' \ DOMAIN users :
                     /\ DOMAIN users' = DOMAIN users \cup {n}
                     /\ users'[n].email = b.email
             ELSE event'.status = 400 /\ users' = users]_vars

\* C18: every user row has one of the roles customer, seller, admin.
C18_RoleInFixedSet == \A u \in DOMAIN users : users[u].role \in Roles

\* C15: adding a product to the wishlist of a user that already has a row
\* for it creates no row and returns the id of the existing row, and after
\* every add exactly one row exists for the pair.
C15_WishlistAddIdempotent ==
    [][\A u \in Actors, p \in DOMAIN products :
          (event'.op = "add_to_wishlist" /\ add_to_wishlist(u, p))
          => /\ WishlistExisting(u, p) # {}
                => (wishlists' = wishlists /\ event'.id \in WishlistExisting(u, p))
             /\ Cardinality(WishlistExisting(u, p)') = 1
             /\ event'.id \in WishlistExisting(u, p)']_vars

\* two rows exist and the add that has just been answered returned the
\* older one: it was a repeated add, a first add returns the newest row
C15_Witness ==
    /\ event.op = "add_to_wishlist"
    /\ event.id = 1
    /\ {1, 2} \subseteq DOMAIN wishlists

\* C16: a review with a rating outside 1..5 is answered 400 and adds no
\* row, and every review row has a rating from 1 to 5.
C16_RatingInRange ==
    [][/\ \A u \in Actors, b \in ReviewBodies :
            (/\ event'.op = "add_review"
             /\ (b.rating < 1 \/ b.rating > 5)
             /\ add_review(u, b))
            => (event'.status = 400 /\ reviews' = reviews)
       /\ \A i \in DOMAIN reviews' :
            1 <= reviews'[i].rating /\ reviews'[i].rating <= 5]_vars

\* reviews rated 1 and 5 exist and a review has just been refused
C16_Witness ==
    /\ event = Event("add_review", 400)
    /\ \E i, j \in DOMAIN reviews : reviews[i].rating = 1 /\ reviews[j].rating = 5

\* C17: every cart line has a quantity of at least 1.
C17_QuantityAtLeastOne ==
    \A i \in DOMAIN cart_items : cart_items[i].quantity >= 1

\* C20: order placement leaves the carts and the cart lines as they were; a
\* user that has already placed an order and whose cart still has lines is
\* not refused and gets a new Order row under a fresh id, and when its lines
\* are still there with their products the placement succeeds with one new
\* OrderItem per line, all of the new order.
C20_NoDedupNoClear ==
    [][/\ event'.op = "create_order_from_cart"
            => (carts' = carts /\ cart_items' = cart_items)
       /\ \A s \in OrderSlots, u \in Shoppers :
            (/\ event'.op = "create_order_from_cart"
             /\ \E o \in DOMAIN orders : Placed(o) /\ orders[o].user_id = u
             /\ \E c \in Matching(carts, "user_id", u) :
                   Matching(cart_items, "cart_id", c) # {}
             /\ create_order_from_cart(s, u))
            => /\ event'.status = 0
               /\ next_id.orders \notin DOMAIN orders
               /\ DOMAIN orders' = DOMAIN orders \cup {next_id.orders}
               /\ orders'[next_id.orders].user_id = u
       /\ \A s \in OrderSlots :
            (/\ event'.op = "create_order_from_cart"
             /\ session[s].pc = "create_order"
             /\ \A i \in session[s].items :
                   /\ i \in DOMAIN cart_items
                   /\ cart_items[i].product_id \in DOMAIN products
             /\ create_order_from_cart_commit(s))
            => /\ event'.status = 200
               /\ Cardinality(DOMAIN order_items' \ DOMAIN order_items)
                     = Cardinality(session[s].items)
               /\ \A i \in DOMAIN order_items' \ DOMAIN order_items :
                     order_items'[i].order_id = session[s].order]_vars

\* two orders have been placed from the one cart line that was ever added,
\* the second placement has just returned and the line is still in the cart
C20_Witness ==
    /\ event = Event("create_order_from_cart", 200)
    /\ next_id.cart_items = 2
    /\ 1 \in DOMAIN cart_items
    /\ \E o1, o2 \in DOMAIN orders :
          /\ o1 # o2
          /\ Placed(o1) /\ Placed(o2)
          /\ orders[o1].user_id = orders[o2].user_id

\* C21: the role of a user changes only in a PUT /admin/users/{id}/role
\* performed by an admin; no request of a user that is not an admin changes
\* that user's own role.
C21_RoleChangeOnlyByAdmin ==
    [][\A u \in DOMAIN users :
          (u \in DOMAIN users' /\ users'[u].role # users[u].role)
          => /\ event'.op = "admin_update_user_role"
             /\ \E a \in Actors, b \in UserUpdates :
                   /\ users[a].role = "admin"
                   /\ admin_update_user_role(a, u, b)]_vars
====
